---- MODULE Spec2Model ----
(***************************************************************************)
(* The talent-search orchestration of core_logic.py and the search         *)
(* endpoint of api_server.py.                                               *)
(*                                                                          *)
(* The process is single threaded and every function is synchronous, so    *)
(* one request runs at a time; its position in the code is pc.  The model   *)
(* provider, the embedding provider and the vector store are collaborators: *)
(* each call to one of them is a step whose outcome (an exception or a      *)
(* returned value) is chosen nondeterministically.                          *)
(*                                                                          *)
(* Strings that the code only compares or passes along are TLA+ strings.    *)
(* The text of the second model response is a sequence of tokens, so that   *)
(* startswith/endswith, slicing, strip() and json.loads are computed.       *)
(***************************************************************************)
EXTENDS Integers, Sequences, FiniteSets, TLC

\* ---------------------------------------------------------------- bounds
MaxRecords == 2      \* records the collection may hold
MaxModelN == 16      \* largest num_results the model asks for
MaxLimit == 2        \* a small caller limit, below the tool default
MaxRequests == 2     \* requests served in one behaviour
MaxResumes == 2      \* resumes one initialize_database call generates

\* ------------------------------------------------------- program constants
DefaultNumResults == 5
DefaultProfilesToRetrieve == 7
\* "Max 15" of the tool schema (line 246) and of the slider of app.py
AppCeiling == 15
ToolName == "resume_search_tool"

Min(a, b) == IF a <= b THEN a ELSE b

\* Python values -------------------------------------------------------
None == [kind |-> "None", val |-> 0, str |-> ""]
PyStr(s) == [kind |-> "str", val |-> 0, str |-> s]
PyInt(n) == [kind |-> "int", val |-> n, str |-> ""]

\* a test for None alone, which lets the empty string through
TruthyUnlessNone(v) == v.kind /= "None"

\* bool(v), as the test of line 181 evaluates it
Truthy(v) ==
    CASE v.kind = "None" -> FALSE
      [] v.kind = "str" -> v.str /= ""
      [] v.kind = "int" -> v.val /= 0

\* An f-string "<prefix>{e}" is the pair of its fixed part and the
\* interpolated text; a fixed message has an empty interpolated part.
Fmt(prefix, e) == <<prefix, e>>

MsgInitError(e) == Fmt("Error initiating conversation with Claude: ", e)
MsgFinalError(e) == Fmt("Error getting final response from Claude after tool use: ", e)
MsgUnknownTool(name) == Fmt("Claude requested an unknown tool: ", name)
MsgInvalidJson == Fmt("LLM response was not valid JSON.", "")
MsgUnexpectedStop == Fmt("Unexpected response from Claude.", "")

\* The tool's marker lists (each is a one-element list holding one dict)
ErrQueryEmpty == <<[error |-> Fmt("Query cannot be empty for resume search.", "")]>>
ErrDatabaseEmpty == <<[error |-> Fmt("Resume database is empty. Initialize it first.", "")]>>
ErrDatabaseAccess(e) == <<[error |-> Fmt("Database access error: ", e)]>>
ErrEmbedding == <<[error |-> Fmt("Failed to generate embedding for query.", "")]>>
NoCandidatesMarker == <<[message |-> Fmt("No candidates found matching the search criteria.", "")]>>

\* ------------------------------------------------------------ tool schema
\* tool_input.get("num_results", 5): the default is used only when the key
\* is absent
GetNumResults(tool_input) ==
    IF tool_input.num_results.kind = "None" /\ ~tool_input.has_num_results
    THEN PyInt(DefaultNumResults)
    ELSE tool_input.num_results

\* min(a, b) of Python raises TypeError unless both are numbers
MinRaises(a) == a.kind /= "int"

\* ------------------------------------------------ second response: text
\* the three-backtick fence followed by json, and the closing three-backtick fence
FenceOpen == "<fence>json"
FenceClose == "<fence>"
Whitespace == {" ", "\n"}

RECURSIVE LStrip(_)
LStrip(s) ==
    IF s /= <<>> /\ Head(s) \in Whitespace THEN LStrip(Tail(s)) ELSE s

RECURSIVE RStrip(_)
RStrip(s) ==
    IF s /= <<>> /\ s[Len(s)] \in Whitespace
    THEN RStrip(SubSeq(s, 1, Len(s) - 1))
    ELSE s

\* str.strip()
Strip(s) == RStrip(LStrip(s))

StartsWithFence(s) == s /= <<>> /\ Head(s) = FenceOpen
EndsWithFence(s) == s /= <<>> /\ s[Len(s)] = FenceClose

\* lines 350-351: the fence is removed only when the text begins with the
\* opening fence and ends with the closing one
StripFence(s) ==
    IF StartsWithFence(s) /\ EndsWithFence(s)
    THEN Strip(SubSeq(s, 2, Len(s) - 1))
    ELSE s

\* json.loads over the token alphabet: "{" members "}" is an analysis
\* object whose candidate entries are the tokens "a" and "b" in the order
\* written; "n" is a JSON scalar; anything else raises JSONDecodeError.
\* Leading and trailing whitespace is accepted, as by json.loads.
CandidateTokens == {"a", "b"}
JsonError == [kind |-> "JSONDecodeError", candidates |-> <<>>]
IsCandidateToken(t) == t \in CandidateTokens
JsonLoads(s) ==
    LET t == Strip(s) IN
    IF t = <<"n">> THEN [kind |-> "scalar", candidates |-> <<>>]
    ELSE IF Len(t) >= 2 /\ Head(t) = "{" /\ t[Len(t)] = "}"
            /\ \A i \in 2..(Len(t) - 1) : t[i] \in CandidateTokens \cup Whitespace
         THEN [kind |-> "object",
               candidates |-> SelectSeq(SubSeq(t, 2, Len(t) - 1), IsCandidateToken)]
         ELSE JsonError

\* ------------------------------------------------------ content blocks
NoInput == [query |-> None, has_num_results |-> FALSE, num_results |-> None]
TextBlock(t) == [type |-> "text", text |-> t, id |-> "", name |-> "", input |-> NoInput]
ToolUseBlock(i, n, inp) == [type |-> "tool_use", text |-> <<>>, id |-> i, name |-> n, input |-> inp]
NoBlock == [type |-> "", text |-> <<>>, id |-> "", name |-> "", input |-> NoInput]

\* a TextBlock has no attribute name/input/id; a ToolUseBlock has no text
HasText(block) == block.type = "text"
HasName(block) == block.type = "tool_use"

NoResponse == [stop_reason |-> "", content |-> <<>>]

\* ------------------------------------------- what the collaborators return
\* text of a provider exception
ExcTexts == {"e1"}

\* arguments the model may put in its tool call
ModelQueries == {None, PyStr(""), PyStr("q"), PyInt(42)}
ModelNumResults ==
    {[has |-> FALSE, v |-> None], [has |-> TRUE, v |-> PyStr("12")]}
    \cup {[has |-> TRUE, v |-> PyInt(n)] : n \in {-1, 1, MaxModelN}}
ToolInputs ==
    {[query |-> q, has_num_results |-> FALSE, num_results |-> None] :
        q \in ModelQueries}
    \cup {[query |-> PyStr("q"), has_num_results |-> n.has, num_results |-> n.v] :
            n \in ModelNumResults}
ToolBlocks ==
    {ToolUseBlock("tu1", ToolName, inp) : inp \in ToolInputs}
    \cup {ToolUseBlock("tu1", "other_tool", NoInput)}
Prose == <<"x">>

\* first response: with stop_reason tool_use the content holds a tool_use
\* block, possibly after a text block; the other stop reasons come with or
\* without content
FirstResponses ==
    {[stop_reason |-> "tool_use", content |-> <<b>>] : b \in ToolBlocks}
    \cup {[stop_reason |-> "tool_use", content |-> <<TextBlock(Prose), b>>] :
            b \in {ToolUseBlock("tu1", ToolName, NoInput),
                   ToolUseBlock("tu1", "other_tool", NoInput)}}
    \cup {[stop_reason |-> sr, content |-> c] :
            sr \in {"end_turn", "max_tokens"},
            c \in {<<>>, <<TextBlock(Prose)>>}}
    \cup {[stop_reason |-> "max_tokens",
           content |-> <<ToolUseBlock("tu1", ToolName, NoInput)>>]}

\* texts of the second response: an optional opening fence, a body, an
\* optional closing fence, with or without whitespace around them
TextPrefixes == {<<>>, <<FenceOpen, "\n">>}
TextBodies ==
    {<<>>, <<"x">>, <<"n">>, <<"{", "}">>,
     <<"{", "b", " ", "a", "}">>}
TextSuffixes == {<<>>, <<"\n", FenceClose>>, <<FenceClose, "\n">>}
SecondTexts == {p \o b \o s : p \in TextPrefixes, b \in TextBodies, s \in TextSuffixes}
SecondResponses ==
    {[stop_reason |-> "end_turn", content |-> <<TextBlock(t)>>] : t \in SecondTexts}
    \cup {[stop_reason |-> "end_turn", content |-> <<>>],
          [stop_reason |-> "tool_use",
           content |-> <<ToolUseBlock("tu2", ToolName, NoInput)>>]}

\* the process environment read by initialize_api_clients
Envs ==
    {[OPENAI_API_KEY |-> o, ANTHROPIC_API_KEY |-> a, YOUR_MOCK_API_KEY |-> m] :
        o \in {None, PyStr("sk-o")}, a \in {PyStr(""), PyStr("sk-a")},
        m \in {None, PyStr("k")}}

\* what callers pass
UserQueries == {"", "q"}
Limits == {0, MaxLimit, DefaultProfilesToRetrieve, AppCeiling + 1}

\* ------------------------------------------------------------------ state
VARIABLES
    env,                        \* os.environ
    global_client_openai, global_client_anthropic, global_mock_api_key,
    init_result,                \* how the last initialize_api_clients ended
    collectionCount,            \* collection.count() of all_resumes
    pc, entry, requests,
    user_query, num_profiles_to_retrieve,
    messages, response, tool_use, requested_num_results,
    tool_query, tool_num_results, embedding, tool_output, final_response,
    outcome, http,
    sent,                       \* the messages argument of each model call
    prev_query,                 \* user_query of the request before this one
    offered,                    \* the tools argument of each model call
    modelCalls, embeddingCalls, storeAccesses, storeQueries, storeQueryN,
    toolExecs,
    imported_mock_api_key,      \* api_server's own binding of the name (line 18)
    auth,                       \* how the last verify_api_key ended
    startup,                    \* how the last startup_event ended
    db_pc, db_check, db_n, db_i,        \* initialize_database: position,
                                        \* outcome of its check, resumes, index
    docs_to_add, metadatas_to_add, ids_to_add, embeddings_to_add,
    db_embeddingCalls, db_exc

db == <<db_pc, db_check, db_n, db_i, docs_to_add, metadatas_to_add, ids_to_add,
        embeddings_to_add, db_embeddingCalls, db_exc>>
server == <<imported_mock_api_key, auth, startup, db>>
globals == <<env, global_client_openai, global_client_anthropic,
             global_mock_api_key, init_result, collectionCount, server>>
locals == <<user_query, num_profiles_to_retrieve, messages, response, tool_use,
            requested_num_results, tool_query, tool_num_results, embedding,
            tool_output, final_response>>
counters == <<modelCalls, embeddingCalls, storeAccesses, storeQueries,
              storeQueryN, toolExecs>>
history == <<sent, prev_query, offered>>
request == <<pc, entry, requests, locals, outcome, http, counters, history>>
vars == <<globals, request>>

NoHttp == [status_code |-> 0, detail |-> <<>>]

NoOutcome == [kind |-> "none"]
Returned(v) == [kind |-> "return", value |-> v]
Raised(e) == [kind |-> "raise", exc |-> e]

FreshLocals ==
    /\ user_query = ""
    /\ num_profiles_to_retrieve = 0
    /\ messages = <<>>
    /\ response = NoResponse
    /\ tool_use = NoBlock
    /\ requested_num_results = None
    /\ tool_query = None
    /\ tool_num_results = None
    /\ embedding = "unset"
    /\ tool_output = <<>>
    /\ final_response = NoResponse
    /\ outcome = NoOutcome
    /\ http = NoHttp
    /\ sent = <<>>
    /\ prev_query = "none"
    /\ offered = <<>>
    /\ modelCalls = 0
    /\ embeddingCalls = 0
    /\ storeAccesses = 0
    /\ storeQueries = 0
    /\ storeQueryN = 0
    /\ toolExecs = 0

NoAuth == [credential |-> "", status_code |-> 0]
NoStartup == [status_code |-> 0, detail |-> <<>>]

\* api_server.py line 18 binds its own global_mock_api_key to the value
\* core_logic's name holds at import, which is None (line 15); nothing
\* assigns api_server's name afterwards
FreshServer ==
    /\ imported_mock_api_key = None
    /\ auth = NoAuth
    /\ startup = NoStartup
    /\ db_pc = "idle"
    /\ db_check = "none"
    /\ db_n = 0
    /\ db_i = 0
    /\ docs_to_add = <<>>
    /\ metadatas_to_add = <<>>
    /\ ids_to_add = <<>>
    /\ embeddings_to_add = <<>>
    /\ db_embeddingCalls = 0
    /\ db_exc = "none"

\* The state once the module is loaded with a usable chroma_client: the
\* globals of lines 13-15 are None, and the persistent backend holds
\* whatever an earlier run left in the collection.  Requests are the calls
\* of perform_claude_search_with_tool and of the search_candidates handler.
Init ==
    /\ env \in Envs
    /\ global_client_openai = None
    /\ global_client_anthropic = None
    /\ global_mock_api_key = None
    /\ init_result = "none"
    /\ collectionCount \in 0..MaxRecords
    /\ pc = "idle"
    /\ entry = "none"
    /\ requests = 0
    /\ FreshLocals
    /\ FreshServer

\* ------------------------------------------------- initialize_api_clients
Client(key) == [kind |-> "client", val |-> 0, str |-> key.str]

\* each client assigned as soon as its own key has passed its test
ReadKeysAndAssignEarly ==
    IF ~Truthy(env.OPENAI_API_KEY)
    THEN /\ init_result' = "ValueError"
         /\ UNCHANGED <<global_client_openai, global_client_anthropic,
                        global_mock_api_key>>
    ELSE /\ global_client_openai' = Client(env.OPENAI_API_KEY)
         /\ IF ~Truthy(env.ANTHROPIC_API_KEY)
            THEN /\ init_result' = "ValueError"
                 /\ UNCHANGED <<global_client_anthropic, global_mock_api_key>>
            ELSE /\ init_result' = "ok"
                 /\ global_client_anthropic' = Client(env.ANTHROPIC_API_KEY)
                 /\ global_mock_api_key' = env.YOUR_MOCK_API_KEY

\* lines 23-50: the two tests raise ValueError before anything is
\* assigned; the three globals are assigned after both have passed
ReadKeysAndAssign ==
    IF ~Truthy(env.OPENAI_API_KEY) \/ ~Truthy(env.ANTHROPIC_API_KEY)
    THEN /\ init_result' = "ValueError"
         /\ UNCHANGED <<global_client_openai, global_client_anthropic,
                        global_mock_api_key>>
    ELSE /\ init_result' = "ok"
         /\ global_client_openai' = Client(env.OPENAI_API_KEY)
         /\ global_client_anthropic' = Client(env.ANTHROPIC_API_KEY)
         /\ global_mock_api_key' = env.YOUR_MOCK_API_KEY

\* one function runs at a time
NoCallRunning == pc \in {"idle", "done"} /\ db_pc /= "loop"

InitializeApiClients ==
    /\ NoCallRunning
    /\ ReadKeysAndAssign
    /\ UNCHANGED <<env, collectionCount, server, request>>

\* a client taken for initialized whatever the global holds
ClientInitializedAlways(c) == TRUE

\* lines 377 and 382: `global_client_... is None` raises RuntimeError
ClientInitialized(c) == c /= None

\* ---------------------------------------------------- the request boundary
ErrorDict(m) == [status |-> "error", message |-> m]

\* pydantic: analysis_data must validate as an AnalysisResponse object
ValidatesAsAnalysisResponse(data) == data.kind = "object"

\* lines 62-64 and 135-138: the response model built from the result
SearchResponseWrapper(status, data) == [status |-> status, analysis_data |-> data]

\* the wrapper built from any analysis_data, validated or not
HttpOfWithoutValidation(o) ==
    IF o.kind = "raise"
    THEN [status_code |-> 500,
          detail |-> <<"Internal Server Error during LLM analysis: ", o.exc>>]
    ELSE LET r == o.value IN
         IF r.status = "success" /\ "analysis_data" \in DOMAIN r
         THEN [status_code |-> 200, detail |-> <<>>,
               body |-> SearchResponseWrapper(r.status, r.analysis_data)]
         ELSE [status_code |-> 500,
               detail |-> <<"Internal Server Error during LLM analysis: ",
                            "LLM analysis failed: ">>]

\* lines 134-144: what search_candidates answers for what the Orchestrator
\* returned or raised
HttpOf(o) ==
    IF o.kind = "raise"
    THEN [status_code |-> 500,
          detail |-> <<"Internal Server Error during LLM analysis: ", o.exc>>]
    ELSE LET r == o.value IN
         IF r.status = "success" /\ "analysis_data" \in DOMAIN r
         THEN IF ValidatesAsAnalysisResponse(r.analysis_data)
              THEN [status_code |-> 200, detail |-> <<>>,
                    body |-> SearchResponseWrapper(r.status, r.analysis_data)]
              ELSE [status_code |-> 500,
                    detail |-> <<"Internal Server Error during LLM analysis: ",
                                 "ValidationError">>]
         ELSE [status_code |-> 500,
               detail |-> <<"Internal Server Error during LLM analysis: ",
                            "LLM analysis failed: ">>
                          \o (IF "message" \in DOMAIN r THEN r.message
                              ELSE <<"Unknown error">>)
                          \o <<". Raw output: ">>
                          \o (IF "raw_llm_output" \in DOMAIN r
                              THEN r.raw_llm_output ELSE <<"N/A">>)]

\* the function returns or raises; through the endpoint the outcome is
\* mapped to the HTTP answer
Finish(o) ==
    /\ outcome' = o
    /\ http' = IF entry = "endpoint" THEN HttpOf(o) ELSE http
    /\ pc' = "done"

\* a new call starts with fresh locals (lines 257-262)
StartRequest(e, q, L) ==
    /\ NoCallRunning
    /\ requests < MaxRequests
    /\ requests' = requests + 1
    /\ entry' = e
    /\ user_query' = q
    /\ num_profiles_to_retrieve' = L
    /\ response' = NoResponse
    /\ tool_use' = NoBlock
    /\ requested_num_results' = None
    /\ tool_query' = None
    /\ tool_num_results' = None
    /\ embedding' = "unset"
    /\ tool_output' = <<>>
    /\ final_response' = NoResponse
    /\ modelCalls' = 0
    /\ embeddingCalls' = 0
    /\ storeQueries' = 0
    /\ storeQueryN' = 0
    /\ toolExecs' = 0
    /\ sent' = <<>>
    /\ offered' = <<>>
    /\ prev_query' = IF entry = "none" THEN "none" ELSE user_query
    /\ UNCHANGED globals

\* the query appended to a list that outlives the call
InitialMessagesOnSharedList(q) == messages \o <<[role |-> "user", content |-> q]>>

InitialMessages(q) == <<[role |-> "user", content |-> q]>>

\* perform_claude_search_with_tool called directly
PerformClaudeSearchWithTool ==
    \E q \in UserQueries, L \in Limits :
        /\ StartRequest("direct", q, L)
        /\ storeAccesses' = 0
        /\ http' = NoHttp
        /\ IF ~ClientInitialized(global_client_anthropic)
           THEN /\ outcome' = Raised("RuntimeError")
                /\ pc' = "done"
                /\ messages' = <<>>
           ELSE /\ outcome' = NoOutcome
                /\ pc' = "first_call"
                /\ messages' = InitialMessages(q)

\* search_candidates: the collection check of lines 121-126, then the call
\* of lines 129-132
SearchCandidates ==
    \E q \in UserQueries, n \in Limits :
        /\ StartRequest("endpoint", q, n)
        /\ storeAccesses' = 1
        /\ \/ \E e \in ExcTexts :
                /\ http' = [status_code |-> 500,
                            detail |-> <<"Database access error: ", e>>]
                /\ outcome' = NoOutcome
                /\ pc' = "done"
                /\ messages' = <<>>
           \/ IF collectionCount = 0
              THEN /\ http' = [status_code |-> 500,
                               detail |-> <<"Database access error: ",
                                            "500: Database not initialized.">>]
                   /\ outcome' = NoOutcome
                   /\ pc' = "done"
                   /\ messages' = <<>>
              ELSE IF ~ClientInitialized(global_client_anthropic)
              THEN /\ outcome' = Raised("RuntimeError")
                   /\ http' = HttpOf(Raised("RuntimeError"))
                   /\ pc' = "done"
                   /\ messages' = <<>>
              ELSE /\ outcome' = NoOutcome
                   /\ http' = NoHttp
                   /\ pc' = "first_call"
                   /\ messages' = InitialMessages(q)

\* ------------------------------------------------------ first model call
\* line 295: tools=[resume_search_tool_schema]
FirstCallTools == <<ToolName>>
\* lines 340-346: the second call names no tools
SecondCallTools == <<>>

FirstModelCall ==
    /\ pc = "first_call"
    /\ modelCalls' = modelCalls + 1
    /\ sent' = Append(sent, messages)
    /\ offered' = Append(offered, FirstCallTools)
    /\ UNCHANGED prev_query
    /\ \/ \E e \in ExcTexts :
            /\ Finish(Returned(ErrorDict(MsgInitError(e))))
            /\ UNCHANGED response
       \/ \E r \in FirstResponses :
            /\ response' = r
            /\ pc' = "dispatch"
            /\ UNCHANGED <<outcome, http>>
    /\ UNCHANGED <<globals, entry, requests, user_query, num_profiles_to_retrieve,
                   messages, tool_use, requested_num_results, tool_query,
                   tool_num_results, embedding, tool_output, final_response,
                   embeddingCalls, storeAccesses, storeQueries, storeQueryN,
                   toolExecs>>

\* the model's own number, passed on without the clamp
ClampNumResultsUnclamped(n, L) == n

\* line 311: min(tool_input.get("num_results", 5), num_profiles_to_retrieve)
ClampNumResults(n, L) == Min(n, L)

\* any tool name taken for the offered one
IsOfferedToolAnyName(name) == TRUE

\* line 310: tool_name == "resume_search_tool"
IsOfferedTool(name) == name = ToolName

\* lines 303-311 and 364-371: the branch on response.stop_reason.  The
\* result says whether the tool is called next or the function ends.
Dispatch(resp, L) ==
    LET c == resp.content
        b == c[1]
        end(o) == [next |-> "end", outcome |-> o, tool_use |-> NoBlock,
                   requested |-> None]
    IN
    IF resp.stop_reason = "tool_use"
    THEN IF c = <<>> THEN end(Raised("IndexError"))
         ELSE IF ~HasName(b) THEN end(Raised("AttributeError"))
         ELSE IF IsOfferedTool(b.name)
         THEN LET n == GetNumResults(b.input) IN
              IF MinRaises(n)
              THEN [next |-> "end", outcome |-> Raised("TypeError"),
                    tool_use |-> b, requested |-> None]
              ELSE [next |-> "tool", outcome |-> NoOutcome, tool_use |-> b,
                    requested |-> PyInt(ClampNumResults(n.val, L))]
         ELSE [next |-> "end",
               outcome |-> Returned(ErrorDict(MsgUnknownTool(b.name))),
               tool_use |-> b, requested |-> None]
    ELSE IF resp.stop_reason = "end_turn"
    THEN IF c = <<>> THEN end(Raised("IndexError"))
         ELSE IF ~HasText(b) THEN end(Raised("AttributeError"))
         ELSE end(Returned([status |-> "success", message |-> b.text]))
    ELSE IF c /= <<>> /\ ~HasText(b) THEN end(Raised("AttributeError"))
         ELSE end(Returned(ErrorDict(MsgUnexpectedStop)))

BranchOnStopReason ==
    /\ pc = "dispatch"
    /\ LET d == Dispatch(response, num_profiles_to_retrieve) IN
        /\ tool_use' = d.tool_use
        /\ requested_num_results' = d.requested
        /\ IF d.next = "tool"
           THEN pc' = "tool" /\ UNCHANGED <<outcome, http>>
           ELSE Finish(d.outcome)
    /\ UNCHANGED <<globals, entry, requests, user_query, num_profiles_to_retrieve,
                   messages, response, tool_query, tool_num_results, embedding,
                   tool_output, final_response, counters, history>>

\* ------------------------------------------------------ resume_search_tool
\* json.dumps of the tool's list: the serialized form is told apart from
\* the list itself
JsonDumps(v) == [dumps |-> v]

ReInstruction == "Based on the tool results and the initial query, provide your analysis and top recommendations."

\* the re-instruction put before the tool_result in the user message
ToolResultMessagesInstructionFirst(block, out) ==
    <<[role |-> "assistant", content |-> <<block>>],
      [role |-> "user",
       content |-> <<[type |-> "text", text |-> ReInstruction],
                     [type |-> "tool_result", tool_use_id |-> block.id,
                      content |-> JsonDumps(out)]>>]>>

\* lines 319-337: the two messages appended after the tool returned
ToolResultMessages(block, out) ==
    <<[role |-> "assistant", content |-> <<block>>],
      [role |-> "user",
       content |-> <<[type |-> "tool_result", tool_use_id |-> block.id,
                      content |-> JsonDumps(out)],
                     [type |-> "text", text |-> ReInstruction]>>]>>

\* the tool's result never handed back to the Orchestrator
ToolReturnsNowhere(out) ==
    /\ tool_output' = out
    /\ messages' = messages
    /\ pc' = "blocked"
    /\ UNCHANGED <<outcome, http>>

\* the tool returns `out` to line 313 and the Orchestrator goes on to the
\* second call
ToolReturns(out) ==
    /\ tool_output' = out
    /\ messages' = messages \o ToolResultMessages(tool_use, out)
    /\ pc' = "second_call"
    /\ UNCHANGED <<outcome, http>>

\* lines 174-192: the empty-query test and the collection check
ToolEnter ==
    /\ pc = "tool"
    /\ toolExecs' = toolExecs + 1
    /\ tool_query' = tool_use.input.query
    /\ tool_num_results' = requested_num_results
    /\ IF ~Truthy(tool_use.input.query)
       THEN /\ ToolReturns(ErrQueryEmpty)
            /\ UNCHANGED storeAccesses
       ELSE /\ storeAccesses' = storeAccesses + 1
            /\ \/ \E e \in ExcTexts : ToolReturns(ErrDatabaseAccess(e))
               \/ IF collectionCount = 0
                  THEN ToolReturns(ErrDatabaseEmpty)
                  ELSE /\ pc' = "embed"
                       /\ UNCHANGED <<tool_output, messages, outcome, http>>
    /\ UNCHANGED <<globals, entry, requests, user_query, num_profiles_to_retrieve,
                   response, tool_use, requested_num_results, embedding,
                   final_response, modelCalls, embeddingCalls, storeQueries,
                   storeQueryN, history>>

\* the embedding call tried again after a failure
OnEmbeddingFailureRetry ==
    /\ embedding' = "None"
    /\ pc' = "embed"
    /\ UNCHANGED <<tool_output, messages, outcome, http>>

\* lines 195-197: a missing embedding ends the tool with its error marker
OnEmbeddingFailure ==
    /\ embedding' = "None"
    /\ ToolReturns(ErrEmbedding)

\* lines 194-197 with get_embedding (376-379) and _get_embedding_internal
\* (72-80): text.replace is outside the try, the provider call inside it
ToolEmbed ==
    /\ pc = "embed"
    /\ IF ~ClientInitialized(global_client_openai)
       THEN /\ Finish(Raised("RuntimeError"))
            /\ UNCHANGED <<embedding, embeddingCalls, tool_output, messages>>
       ELSE IF tool_query.kind /= "str"
       THEN /\ Finish(Raised("AttributeError"))
            /\ UNCHANGED <<embedding, embeddingCalls, tool_output, messages>>
       ELSE /\ embeddingCalls' = embeddingCalls + 1
            /\ \/ OnEmbeddingFailure
               \/ /\ embedding' = "vector"
                  /\ pc' = "query"
                  /\ UNCHANGED <<tool_output, messages, outcome, http>>
    /\ UNCHANGED <<globals, entry, requests, user_query, num_profiles_to_retrieve,
                   response, tool_use, requested_num_results, tool_query,
                   tool_num_results, final_response, modelCalls, storeAccesses,
                   storeQueries, storeQueryN, toolExecs, history>>

\* get_embedding called directly (lines 376-379): the wrapper's test
GetEmbedding ==
    \E t \in UserQueries :
        /\ StartRequest("get_embedding", t, 0)
        /\ storeAccesses' = 0
        /\ http' = NoHttp
        /\ messages' = <<>>
        /\ IF ~ClientInitialized(global_client_openai)
           THEN /\ outcome' = Raised("RuntimeError")
                /\ pc' = "done"
           ELSE /\ outcome' = NoOutcome
                /\ pc' = "get_embedding"

\* _get_embedding_internal (lines 72-80): the provider call inside the
\* try; the function returns the vector, or None after an exception
GetEmbeddingInternal ==
    /\ pc = "get_embedding"
    /\ embeddingCalls' = embeddingCalls + 1
    /\ embedding' \in {"None", "vector"}
    /\ outcome' = [kind |-> "value"]
    /\ pc' = "done"
    /\ UNCHANGED <<globals, entry, requests, user_query, num_profiles_to_retrieve,
                   messages, response, tool_use, requested_num_results,
                   tool_query, tool_num_results, tool_output, final_response,
                   http, modelCalls, storeAccesses, storeQueries, storeQueryN,
                   toolExecs, history>>

\* the records of the collection and what the tool makes of one (215-226)
StoredIds(count) == [i \in 1..count |-> i]
\* the stored text of record i and its length in characters: the store
\* holds resumes of any length
Document(i) == [resume |-> i, chars |-> 1000 * i]
Candidate(i) == [id |-> i, name |-> <<"name", i>>, raw_resume_text |-> Document(i)]
CandidatesData(ids) == [i \in 1..Len(ids) |-> Candidate(ids[i])]

\* collection.query returns the nearest min(n, count) records, or none
QueryResults(n, count) ==
    {<<>>, SubSeq(StoredIds(count), 1, Min(n, count))}

\* lines 199-231: the store query is outside every try
ToolQuery ==
    /\ pc = "query"
    /\ storeQueries' = storeQueries + 1
    /\ storeQueryN' = tool_num_results.val
    /\ \/ \E e \in ExcTexts :
            /\ Finish(Raised(e))
            /\ UNCHANGED <<tool_output, messages>>
       \/ /\ tool_num_results.val > 0
          /\ \E ids \in QueryResults(tool_num_results.val, collectionCount) :
                IF ids /= <<>>
                THEN ToolReturns(CandidatesData(ids))
                ELSE ToolReturns(NoCandidatesMarker)
    /\ UNCHANGED <<globals, entry, requests, user_query, num_profiles_to_retrieve,
                   response, tool_use, requested_num_results, tool_query,
                   tool_num_results, embedding, final_response, modelCalls,
                   embeddingCalls, storeAccesses, toolExecs, history>>

\* ----------------------------------------------------- second model call
\* the error result carrying the text after the fence was removed
ParseFinalRawStripped(resp) ==
    LET c == resp.content IN
    IF c = <<>>
    THEN ErrorDict(MsgFinalError("list index out of range"))
    ELSE IF ~HasText(c[1])
    THEN ErrorDict(MsgFinalError("object has no attribute 'text'"))
    ELSE LET parsed_json == JsonLoads(StripFence(c[1].text)) IN
         IF parsed_json = JsonError
         THEN [status |-> "error", message |-> MsgInvalidJson,
               raw_llm_output |-> StripFence(c[1].text)]
         ELSE [status |-> "success", analysis_data |-> parsed_json]

\* the success result with its candidates put in alphabetical order
IsTokenA(t) == t = "a"
IsTokenB(t) == t = "b"
ParseFinalSorted(resp) ==
    LET c == resp.content IN
    IF c = <<>>
    THEN ErrorDict(MsgFinalError("list index out of range"))
    ELSE IF ~HasText(c[1])
    THEN ErrorDict(MsgFinalError("object has no attribute 'text'"))
    ELSE LET parsed_json == JsonLoads(StripFence(c[1].text)) IN
         IF parsed_json = JsonError
         THEN [status |-> "error", message |-> MsgInvalidJson,
               raw_llm_output |-> c[1].text]
         ELSE [status |-> "success",
               analysis_data |->
                   [kind |-> parsed_json.kind,
                    candidates |-> SelectSeq(parsed_json.candidates, IsTokenA)
                                   \o SelectSeq(parsed_json.candidates, IsTokenB)]]

\* lines 348-363: what is returned for the second response
ParseFinal(resp) ==
    LET c == resp.content IN
    IF c = <<>>
    THEN ErrorDict(MsgFinalError("list index out of range"))
    ELSE IF ~HasText(c[1])
    THEN ErrorDict(MsgFinalError("object has no attribute 'text'"))
    ELSE LET parsed_json == JsonLoads(StripFence(c[1].text)) IN
         IF parsed_json = JsonError
         THEN [status |-> "error", message |-> MsgInvalidJson,
               raw_llm_output |-> c[1].text]
         ELSE [status |-> "success", analysis_data |-> parsed_json]

SecondModelCall ==
    /\ pc = "second_call"
    /\ modelCalls' = modelCalls + 1
    /\ sent' = Append(sent, messages)
    /\ offered' = Append(offered, SecondCallTools)
    /\ UNCHANGED prev_query
    /\ \/ \E e \in ExcTexts :
            /\ Finish(Returned(ErrorDict(MsgFinalError(e))))
            /\ UNCHANGED final_response
       \/ \E r \in SecondResponses :
            /\ final_response' = r
            /\ Finish(Returned(ParseFinal(r)))
    /\ UNCHANGED <<globals, entry, requests, user_query, num_profiles_to_retrieve,
                   messages, response, tool_use, requested_num_results,
                   tool_query, tool_num_results, embedding, tool_output,
                   embeddingCalls, storeAccesses, storeQueries, storeQueryN,
                   toolExecs>>

Next ==
    \/ InitializeApiClients
    \/ PerformClaudeSearchWithTool
    \/ SearchCandidates
    \/ GetEmbedding
    \/ GetEmbeddingInternal
    \/ FirstModelCall
    \/ BranchOnStopReason
    \/ ToolEnter
    \/ ToolEmbed
    \/ ToolQuery
    \/ SecondModelCall

Spec == Init /\ [][Next]_vars

\* A call that has started runs to its end: the function is straight-line
\* synchronous code, and every call of a collaborator returns or raises.
RequestStep ==
    \/ GetEmbeddingInternal
    \/ FirstModelCall
    \/ BranchOnStopReason
    \/ ToolEnter
    \/ ToolEmbed
    \/ ToolQuery
    \/ SecondModelCall

FairSpec == Spec /\ WF_vars(RequestStep)

\* ===================================================================
\* Startup, authentication and fixture population
\* ===================================================================
\* os.environ is set outside the program and may differ from one call of
\* initialize_api_clients to the next
ChangeEnvironment ==
    /\ NoCallRunning
    /\ \E e \in Envs \ {env} : env' = e
    /\ UNCHANGED <<global_client_openai, global_client_anthropic,
                   global_mock_api_key, init_result, collectionCount, server,
                   request>>

\* startup_event, lines 78-90: initialize_api_clients raises ValueError, or
\* returns and line 83 raises NameError (core_logic is not a name of the
\* module); either is caught at line 87 and raised again as HTTPException,
\* so lines 93-102 are not reached
StartupEvent ==
    /\ NoCallRunning
    /\ ReadKeysAndAssign
    /\ startup' = [status_code |-> 500,
                   detail |-> <<"API Client Initialization Failed: ",
                                IF ~Truthy(env.OPENAI_API_KEY)
                                   \/ ~Truthy(env.ANTHROPIC_API_KEY)
                                THEN "ValueError" ELSE "NameError">>]
    /\ UNCHANGED <<env, collectionCount, imported_mock_api_key, auth, db, request>>

\* bearer credentials a caller presents
Credentials == {"k", "wrong"}

\* verify_api_key, lines 37-47, reading api_server's own name
VerifyApiKeyStatus(c, key) ==
    IF key = None THEN 500
    ELSE IF PyStr(c) = key THEN 200
    ELSE 401

VerifyApiKey ==
    /\ NoCallRunning
    /\ \E c \in Credentials :
        auth' = [credential |-> c,
                 status_code |-> VerifyApiKeyStatus(c, imported_mock_api_key)]
    /\ UNCHANGED <<env, global_client_openai, global_client_anthropic,
                   global_mock_api_key, init_result, collectionCount,
                   imported_mock_api_key, startup, db, request>>

\* the populated test never passing
AlreadyPopulatedNever(count) == FALSE

\* lines 101-105: the collection already holds records
AlreadyPopulated(count) == count > 0

\* lines 110-123: the resumes are generated; line 115 reads DATABASE_DIR,
\* which src/ binds nowhere, and line 116 creates a directory: the
\* function ends there with an exception, or goes on to the loop
PrepareBatch ==
    \/ /\ db_pc' = "raised"
       /\ db_exc' = "NameError"
    \/ /\ db_pc' = "loop"
       /\ db_exc' = "none"

\* initialize_database, lines 90-123: the check of the collection (whose
\* exception is caught at line 106 and the function proceeds), then the
\* preparation of the batch
InitializeDatabase ==
    /\ NoCallRunning
    /\ \E n \in 0..MaxResumes : db_n' = n
    /\ db_i' = 1
    /\ docs_to_add' = <<>>
    /\ metadatas_to_add' = <<>>
    /\ ids_to_add' = <<>>
    /\ embeddings_to_add' = <<>>
    /\ db_embeddingCalls' = 0
    /\ \/ /\ db_check' = "raised"
          /\ PrepareBatch
       \/ /\ db_check' = "ok"
          /\ IF AlreadyPopulated(collectionCount)
             THEN /\ db_pc' = "returned"
                  /\ db_exc' = "none"
             ELSE PrepareBatch
    /\ UNCHANGED <<env, global_client_openai, global_client_anthropic,
                   global_mock_api_key, init_result, collectionCount,
                   imported_mock_api_key, auth, startup, request>>

\* one iteration of the loop of lines 125-157 for resume db_i (a generated
\* resume has an id and a non-empty raw_text): get_embedding raises when
\* the client is None; a None embedding skips the resume; otherwise line
\* 147 appends the text and line 151 raises NameError (metadata is not a
\* name of the function) before the other three lists are appended to
InitializeDatabaseLoop ==
    /\ db_pc = "loop"
    /\ db_i <= db_n
    /\ IF ~ClientInitialized(global_client_openai)
       THEN /\ db_pc' = "raised"
            /\ db_exc' = "RuntimeError"
            /\ UNCHANGED <<db_i, docs_to_add, db_embeddingCalls>>
       ELSE /\ db_embeddingCalls' = db_embeddingCalls + 1
            /\ \/ /\ db_i' = db_i + 1
                  /\ UNCHANGED <<db_pc, db_exc, docs_to_add>>
               \/ /\ docs_to_add' = Append(docs_to_add, db_i)
                  /\ db_pc' = "raised"
                  /\ db_exc' = "NameError"
                  /\ UNCHANGED db_i
    /\ UNCHANGED <<env, global_client_openai, global_client_anthropic,
                   global_mock_api_key, init_result, collectionCount,
                   imported_mock_api_key, auth, startup, db_check, db_n,
                   metadatas_to_add, ids_to_add, embeddings_to_add, request>>

\* lines 159-169: the batch is added when it holds a record
InitializeDatabaseAdd ==
    /\ db_pc = "loop"
    /\ db_i > db_n
    /\ db_pc' = "returned"
    /\ collectionCount' = IF ids_to_add /= <<>>
                          THEN collectionCount + Len(ids_to_add)
                          ELSE collectionCount
    /\ UNCHANGED <<env, global_client_openai, global_client_anthropic,
                   global_mock_api_key, init_result, imported_mock_api_key,
                   auth, startup, db_check, db_n, db_i, docs_to_add,
                   metadatas_to_add, ids_to_add, embeddings_to_add,
                   db_embeddingCalls, db_exc, request>>

ServerNext ==
    \/ ChangeEnvironment
    \/ InitializeApiClients
    \/ StartupEvent
    \/ VerifyApiKey
    \/ InitializeDatabase
    \/ InitializeDatabaseLoop
    \/ InitializeDatabaseAdd

ServerSpec == Init /\ [][ServerNext]_vars

\* ===================================================================
\* Properties
\* ===================================================================
Done == pc = "done"
ReturnedDict == Done /\ outcome.kind = "return"
StatusIs(st) == ReturnedDict /\ outcome.value.status = st

\* the tool_use block the Orchestrator reads, and the number the model
\* asked for in it (5 when it gave none)
ModelAskedN ==
    IF tool_use.input.has_num_results THEN tool_use.input.num_results.val
    ELSE DefaultNumResults

\* C1: whenever the Retrieval Tool is executed, its num_results is the
\* smaller of the model's number (5 when absent) and the caller's limit,
\* so it never exceeds the limit, and no store query asks for more records
\* than the limit.
C1_ToolClampedToCallerLimit ==
    /\ toolExecs > 0 =>
        /\ tool_num_results.kind = "int"
        /\ tool_num_results.val =
             (IF ModelAskedN <= num_profiles_to_retrieve
              THEN ModelAskedN ELSE num_profiles_to_retrieve)
        /\ tool_num_results.val <= num_profiles_to_retrieve
    /\ storeQueries > 0 => storeQueryN <= num_profiles_to_retrieve

C1_Witness ==
    /\ toolExecs > 0
    /\ storeQueries > 0
    /\ tool_use.input.has_num_results
    /\ ModelAskedN > num_profiles_to_retrieve
    /\ num_profiles_to_retrieve > 0
    /\ storeQueryN = num_profiles_to_retrieve

\* C2: once the tool has returned the no-candidates marker the request
\* makes no second model call: the number of model calls stays at one.
C2_NoSecondCallAfterNoCandidates ==
    tool_output = NoCandidatesMarker => modelCalls = 1

\* the tool ran with a non-empty query and the store had nothing for it:
\* the collection was reachable and empty, or the query returned no record
NoMatchingRecords ==
    /\ toolExecs > 0
    /\ tool_query.kind = "str"
    /\ tool_query.str /= ""
    /\ tool_output \in {ErrDatabaseEmpty, NoCandidatesMarker}

\* C3: for a non-empty query with no matching records (an empty store
\* included) the tool returns the no-candidates marker and the request
\* ends with status success and an empty candidate list, never an error.
C3_NoMatchIsEmptySuccess ==
    NoMatchingRecords =>
        /\ tool_output = NoCandidatesMarker
        /\ Done =>
            /\ StatusIs("success")
            /\ "analysis_data" \in DOMAIN outcome.value
            /\ outcome.value.analysis_data.candidates = <<>>

\* the text of the second response, where it has one
HasSecondText ==
    /\ final_response.content /= <<>>
    /\ HasText(final_response.content[1])
SecondText == final_response.content[1].text

\* the text without an optional opening and closing fence, whitespace
\* around the fences ignored
Unfenced(s) ==
    LET t == Strip(s)
        u == IF StartsWithFence(t) THEN Tail(t) ELSE t
        v == IF EndsWithFence(u) THEN SubSeq(u, 1, Len(u) - 1) ELSE u
    IN Strip(v)
NotJson(s) == JsonLoads(Unfenced(s)) = JsonError

\* C4: when the second response's text, without its optional fence, is
\* empty or not JSON, the result is status error with the invalid-JSON
\* message and the original text unchanged as raw output; no other path
\* returns that message.
C4_MalformedJsonCarriesRawText ==
    /\ (Done /\ HasSecondText /\ NotJson(SecondText)) =>
        /\ StatusIs("error")
        /\ outcome.value.message = MsgInvalidJson
        /\ "raw_llm_output" \in DOMAIN outcome.value
        /\ outcome.value.raw_llm_output = SecondText
    /\ (StatusIs("error") /\ outcome.value.message = MsgInvalidJson) =>
        /\ HasSecondText
        /\ JsonLoads(StripFence(SecondText)) = JsonError

C4_Witness ==
    /\ Done
    /\ HasSecondText
    /\ StartsWithFence(SecondText)
    /\ EndsWithFence(SecondText)
    /\ Unfenced(SecondText) = <<>>
    /\ StatusIs("error")
    /\ outcome.value.raw_llm_output = SecondText

\* C5: a request that reached the model ends with a returned result whose
\* status is success or error; no exception leaves the function.
C5_NoExceptionEscapes ==
    (Done /\ modelCalls > 0) =>
        /\ outcome.kind = "return"
        /\ outcome.value.status \in {"success", "error"}

\* C6: after a first response with stop reason end_turn that holds the
\* model's plain text, no tool ran, no second call was made, and the result
\* is a success carrying an analysis with an empty candidate list.
C6_DirectAnswerIsEmptyAnalysis ==
    (Done /\ response.stop_reason = "end_turn"
          /\ response.content /= <<>> /\ HasText(response.content[1])) =>
        /\ toolExecs = 0
        /\ modelCalls = 1
        /\ StatusIs("success")
        /\ "analysis_data" \in DOMAIN outcome.value
        /\ outcome.value.analysis_data.candidates = <<>>

\* the first response asks for a tool other than the one offered
AsksUnknownTool ==
    /\ response.stop_reason = "tool_use"
    /\ \E i \in DOMAIN response.content :
        /\ response.content[i].type = "tool_use"
        /\ response.content[i].name /= ToolName

\* C7: a first response asking for an unknown tool ends the request with
\* status error, with no tool execution, no embedding call, no store
\* query and no second model call.
C7_UnknownToolIsError ==
    AsksUnknownTool =>
        /\ toolExecs = 0
        /\ embeddingCalls = 0
        /\ storeQueries = 0
        /\ modelCalls = 1
        /\ Done => (StatusIs("error")
                    /\ outcome.value.message = MsgUnknownTool("other_tool"))

\* C8: a first response with a stop reason other than tool_use and
\* end_turn ends the request with status error, no tool execution and no
\* second model call.
C8_OtherStopIsError ==
    (response.stop_reason \notin {"", "tool_use", "end_turn"}) =>
        /\ toolExecs = 0
        /\ modelCalls = 1
        /\ Done => StatusIs("error")

\* C9: a request with the empty query makes no model call and no
\* embedding call.
C9_EmptyQueryMakesNoCall ==
    (entry /= "none" /\ user_query = "") =>
        (modelCalls = 0 /\ embeddingCalls = 0)

\* C10: once the embedding call of the tool has failed, the request makes
\* no further embedding call, no store query and no second model call,
\* and it ends with status error.
C10_EmbeddingFailureAborts ==
    embedding = "None" =>
        /\ embeddingCalls = 1
        /\ storeQueries = 0
        /\ modelCalls = 1
        /\ Done => StatusIs("error")

\* store accesses made by the tool (the endpoint makes one of its own
\* before the Orchestrator runs)
ToolStoreAccesses == storeAccesses - (IF entry = "endpoint" THEN 1 ELSE 0)

\* the tool ran with a query that is missing or the empty string
ToolQueryEmptyOrMissing ==
    /\ toolExecs > 0
    /\ \/ tool_query.kind = "None"
       \/ tool_query.kind = "str" /\ tool_query.str = ""

\* the tool_result block of the second model call
SentToolResult == sent[2][3].content[1]

\* C11: a tool invocation with an empty or missing query makes no store
\* access and no embedding call, and its error marker is the content of
\* the tool_result sent to the model in the second call.
C11_EmptyToolQueryErrorReachesModel ==
    ToolQueryEmptyOrMissing =>
        /\ ToolStoreAccesses = 0
        /\ storeQueries = 0
        /\ embeddingCalls = 0
        /\ tool_output = ErrQueryEmpty
        /\ Done =>
            /\ Len(sent) = 2
            /\ SentToolResult.type = "tool_result"
            /\ SentToolResult.content = JsonDumps(ErrQueryEmpty)

C11_Witness ==
    /\ Done
    /\ toolExecs = 1
    /\ tool_query = PyStr("")
    /\ Len(sent) = 2
    /\ SentToolResult.content = JsonDumps(ErrQueryEmpty)

\* C12: a request makes at most two model calls and one tool execution,
\* and the tool at most one embedding call and one store query.
C12_CallsAreBounded ==
    /\ modelCalls <= 2
    /\ Len(sent) = modelCalls
    /\ toolExecs <= 1
    /\ embeddingCalls <= 1
    /\ storeQueries <= 1
    /\ ToolStoreAccesses <= 1

C12_Witness ==
    /\ Done
    /\ modelCalls = 2
    /\ toolExecs = 1
    /\ embeddingCalls = 1
    /\ storeQueries = 1

WellWrapped(s) == StartsWithFence(Strip(s)) <=> EndsWithFence(Strip(s))
IsJsonObject(s) == JsonLoads(s).kind = "object"
SuccessWithAnalysis ==
    /\ StatusIs("success")
    /\ "analysis_data" \in DOMAIN outcome.value

\* C14: a second response whose text is a JSON object, bare or between an
\* opening and a closing fence with any whitespace around the fences, is
\* returned as status success with the parsed object.
C14_FencedJsonObjectIsSuccess ==
    (/\ Done
     /\ HasSecondText
     /\ WellWrapped(SecondText)
     /\ IsJsonObject(Unfenced(SecondText))) =>
        /\ SuccessWithAnalysis
        /\ outcome.value.analysis_data = JsonLoads(Unfenced(SecondText))

\* the candidate records of the tool output sent in the second call
SentCandidates ==
    LET out == SentToolResult.content.dumps IN
    {out[i] : i \in {j \in 1..Len(out) : "raw_resume_text" \in DOMAIN out[j]}}

\* C15: the raw resume text of every candidate in the tool_result sent to
\* the model is at most 1500 characters long.
C15_ForwardedResumeWithinBudget ==
    Len(sent) = 2 =>
        \A c \in SentCandidates : c.raw_resume_text.chars <= 1500

\* C16: for a request through the endpoint, the limit handed to the
\* Orchestrator and the number of records asked of the store are at most
\* the ceiling of 15.
C16_LimitWithinCeiling ==
    entry = "endpoint" =>
        /\ num_profiles_to_retrieve <= AppCeiling
        /\ storeQueryN <= AppCeiling

\* C17: the message of an error result does not contain the text of an
\* exception raised by a provider.
C17_ErrorsCarryNoExceptionText ==
    StatusIs("error") => outcome.value.message[2] \notin ExcTexts

\* C18: on the success path the analysis returned is the object parsed
\* from the second response, its candidates those of the text in the
\* order of the text, and the endpoint's body carries the same object.
C18_AnalysisIsTheParsedObject ==
    SuccessWithAnalysis =>
        /\ HasSecondText
        /\ outcome.value.analysis_data = JsonLoads(StripFence(SecondText))
        /\ outcome.value.analysis_data.candidates
               = SelectSeq(SecondText, IsCandidateToken)
        /\ (entry = "endpoint" /\ http.status_code = 200) =>
               http.body.analysis_data.candidates
                   = SelectSeq(SecondText, IsCandidateToken)

C18_Witness ==
    /\ SuccessWithAnalysis
    /\ entry = "endpoint"
    /\ http.status_code = 200
    /\ http.body.analysis_data.candidates = <<"b", "a">>

\* C19: a success result that follows a parsed second response carries
\* token-usage accounting beside the status and the analysis.
C19_SuccessCarriesTokenUsage ==
    SuccessWithAnalysis =>
        DOMAIN outcome.value \ {"status", "analysis_data"} /= {}

\* the first response is a tool invocation naming the offered tool
FirstResponseInvokesOfferedTool ==
    /\ modelCalls >= 1
    /\ response.stop_reason = "tool_use"
    /\ response.content /= <<>>
    /\ HasName(response.content[1])
    /\ response.content[1].name = ToolName

\* C20: the tool runs only after a first response that invokes the
\* offered tool, the second model call is made only after the tool has
\* returned, and a success carrying analysis data is returned only after
\* the second response was parsed.
C20_TwoRoundProtocolOrder ==
    /\ (toolExecs > 0 \/ pc \in {"tool", "embed", "query"}) =>
           FirstResponseInvokesOfferedTool
    /\ (modelCalls = 2 \/ pc = "second_call") =>
        /\ FirstResponseInvokesOfferedTool
        /\ toolExecs = 1
        /\ tool_output /= <<>>
    /\ SuccessWithAnalysis =>
        /\ modelCalls = 2
        /\ toolExecs = 1
        /\ HasSecondText
        /\ JsonLoads(StripFence(SecondText)) /= JsonError

C20_Witness ==
    /\ SuccessWithAnalysis
    /\ modelCalls = 2
    /\ toolExecs = 1
    /\ storeQueries = 1

\* C21: the first model call carries one message, the user's query, and
\* offers the tool; the second carries three: the query, the assistant's
\* tool_use block, and a user message holding the tool_result (with the
\* id of that block and the serialized tool output of this request)
\* followed by the re-instruction text.
C21_MessagesOfBothCalls ==
    /\ Len(sent) >= 1 =>
        /\ Len(sent[1]) = 1
        /\ sent[1][1] = [role |-> "user", content |-> user_query]
        /\ offered[1] = <<ToolName>>
    /\ Len(sent) = 2 =>
        /\ Len(sent[2]) = 3
        /\ sent[2][1] = [role |-> "user", content |-> user_query]
        /\ sent[2][2].role = "assistant"
        /\ sent[2][2].content = <<response.content[1]>>
        /\ sent[2][3].role = "user"
        /\ Len(sent[2][3].content) = 2
        /\ sent[2][3].content[1] =
               [type |-> "tool_result", tool_use_id |-> response.content[1].id,
                content |-> JsonDumps(tool_output)]
        /\ sent[2][3].content[2] = [type |-> "text", text |-> ReInstruction]

C21_Witness ==
    /\ Len(sent) = 2
    /\ storeQueries = 1
    /\ Len(tool_output) = 2
    /\ sent[2][3].content[1].content = JsonDumps(CandidatesData(<<1, 2>>))

\* the terminal outcomes of a request
Parsed == SuccessWithAnalysis
DirectAnswered ==
    /\ StatusIs("success")
    /\ "analysis_data" \notin DOMAIN outcome.value
Failed ==
    /\ Done
    /\ \/ outcome.kind = "raise"
       \/ StatusIs("error")
       \/ outcome.kind = "none" /\ http.status_code = 500
ExactlyOneTerminal ==
    /\ Parsed \/ DirectAnswered \/ Failed
    /\ ~(Parsed /\ DirectAnswered)
    /\ ~(Parsed /\ Failed)
    /\ ~(DirectAnswered /\ Failed)
InRequest == pc \notin {"idle", "done"}

\* C22: when every external call returns or fails, a started request
\* reaches its end, the end is exactly one of PARSED, DIRECT_ANSWERED and
\* FAILED, and nothing of the request changes after it until another
\* request starts.
C22_EveryRequestTerminatesOnce ==
    /\ InRequest ~> Done
    /\ []((Done /\ entry \in {"direct", "endpoint"}) => ExactlyOneTerminal)
    /\ [][Done => \/ requests' = requests + 1
                  \/ /\ pc' = "done"
                     /\ UNCHANGED <<entry, locals, outcome, http, counters,
                                    history>>]_vars

C22_Witness ==
    /\ Done
    /\ requests = 2
    /\ Parsed
    /\ modelCalls = 2

\* C23: no call reaches the model provider or the embedding provider
\* before initialize_api_clients has completed successfully; until then
\* perform_claude_search_with_tool and get_embedding raise RuntimeError
\* without any external call.
C23_NoProviderCallBeforeInit ==
    /\ modelCalls > 0 => global_client_anthropic /= None
    /\ embeddingCalls > 0 => global_client_openai /= None
    /\ (global_client_anthropic /= None \/ global_client_openai /= None) =>
           init_result /= "none"
    /\ (Done /\ entry = "direct" /\ global_client_anthropic = None) =>
        /\ outcome = Raised("RuntimeError")
        /\ modelCalls = 0
        /\ embeddingCalls = 0
        /\ storeAccesses = 0
    /\ (Done /\ entry = "get_embedding" /\ global_client_openai = None) =>
        /\ outcome = Raised("RuntimeError")
        /\ embeddingCalls = 0

C23_Witness ==
    /\ Done
    /\ requests = 2
    /\ entry = "get_embedding"
    /\ prev_query = "q"
    /\ outcome = Raised("RuntimeError")
    /\ init_result = "ValueError"

\* C24: once initialize_api_clients has completed with a non-empty
\* YOUR_MOCK_API_KEY, verify_api_key accepts the credential equal to the
\* key and answers 401 to any other; it answers 500 only while the key
\* is not set.
C24_KeyAcceptedAfterInit ==
    [][auth' /= auth =>
          auth'.status_code =
              (IF ~Truthy(global_mock_api_key) THEN 500
               ELSE IF PyStr(auth'.credential) = global_mock_api_key THEN 200
               ELSE 401)]_vars

KeysMissing(e) == ~Truthy(e.OPENAI_API_KEY) \/ ~Truthy(e.ANTHROPIC_API_KEY)
InitGlobals == <<global_client_openai, global_client_anthropic, global_mock_api_key>>

\* C26: initialize_api_clients is all-or-nothing: with OPENAI_API_KEY or
\* ANTHROPIC_API_KEY missing or empty it raises ValueError and leaves the
\* three globals unchanged; with both present it assigns all three, also
\* when YOUR_MOCK_API_KEY is missing.
C26_InitializeIsAllOrNothing ==
    [][(<<init_result, InitGlobals>>' /= <<init_result, InitGlobals>>) =>
          IF KeysMissing(env)
          THEN /\ init_result' = "ValueError"
               /\ UNCHANGED InitGlobals
          ELSE /\ init_result' = "ok"
               /\ global_client_openai' = Client(env.OPENAI_API_KEY)
               /\ global_client_anthropic' = Client(env.ANTHROPIC_API_KEY)
               /\ global_mock_api_key' = env.YOUR_MOCK_API_KEY]_vars

C26_Witness ==
    /\ init_result = "ValueError"
    /\ KeysMissing(env)
    /\ global_client_openai /= None
    /\ global_client_anthropic /= None
    /\ global_mock_api_key = None

\* C27: a call of initialize_database that finds the collection holding
\* records returns without an embedding call and without a batch, and
\* the record count of a populated collection never changes.
C27_PopulatedCollectionIsLeftAlone ==
    /\ []((db_check = "ok" /\ collectionCount > 0) =>
            /\ db_pc = "returned"
            /\ db_embeddingCalls = 0
            /\ ids_to_add = <<>>
            /\ docs_to_add = <<>>)
    /\ [][collectionCount > 0 => collectionCount' = collectionCount]_vars

C27_Witness ==
    /\ db_check = "ok"
    /\ collectionCount > 0
    /\ db_pc = "returned"
    /\ db_n > 0
    /\ global_client_openai /= None

\* C28: whenever an iteration of the loop of initialize_database has
\* ended, the four batch lists have the same length and their i-th
\* entries belong to the same resume.
C28_BatchListsStayAligned ==
    db_pc \in {"loop", "returned", "raised"} =>
        /\ Len(docs_to_add) = Len(ids_to_add)
        /\ Len(metadatas_to_add) = Len(ids_to_add)
        /\ Len(embeddings_to_add) = Len(ids_to_add)
        /\ \A i \in 1..Len(ids_to_add) :
               /\ docs_to_add[i] = ids_to_add[i]
               /\ metadatas_to_add[i] = ids_to_add[i]
               /\ embeddings_to_add[i] = ids_to_add[i]

\* the endpoint has answered a request
EndpointDone == Done /\ entry = "endpoint"
ResultHasAnalysis ==
    /\ outcome.kind = "return"
    /\ outcome.value.status = "success"
    /\ "analysis_data" \in DOMAIN outcome.value
\* the Orchestrator was not invoked: 500 and no model call
EndpointFailsBeforeOrchestrator ==
    /\ outcome.kind = "none" => (http.status_code = 500 /\ modelCalls = 0)
    /\ collectionCount = 0 => outcome.kind = "none"

\* C25: the endpoint answers with a success wrapper exactly when the
\* Orchestrator's result has status success and contains analysis_data;
\* every other result and every exception yields 500; with the collection
\* empty or unreachable it answers 500 without invoking the Orchestrator.
C25_WrapperIffSuccessWithAnalysis ==
    EndpointDone =>
        /\ http.status_code = 200 <=> ResultHasAnalysis
        /\ http.status_code \in {200, 500}
        /\ EndpointFailsBeforeOrchestrator

\* C25 as amended: the success wrapper is answered exactly when the
\* result has status success and analysis_data that validates as an
\* AnalysisResponse, and it carries that status and data; every other
\* result and every exception yields 500; with the collection empty or
\* unreachable the endpoint answers 500 without invoking the Orchestrator.
C25_WrapperIffValidAnalysis ==
    EndpointDone =>
        /\ http.status_code = 200 <=>
               (ResultHasAnalysis
                /\ ValidatesAsAnalysisResponse(outcome.value.analysis_data))
        /\ http.status_code = 200 =>
               http.body = SearchResponseWrapper("success",
                                                 outcome.value.analysis_data)
        /\ http.status_code \in {200, 500}
        /\ EndpointFailsBeforeOrchestrator

C25_Witness ==
    /\ EndpointDone
    /\ ResultHasAnalysis
    /\ ~ValidatesAsAnalysisResponse(outcome.value.analysis_data)
    /\ http.status_code = 500

====
